---------------------------- MODULE Spec2Model ----------------------------
(***************************************************************************)
(* Messaging core of banking-shared-ts: BaseProducer (the Publisher),      *)
(* BaseConsumer (the Subscriber), the event envelope built by              *)
(* createBaseEvent, and the transport (kafkajs) they drive.                *)
(*                                                                         *)
(* Every async method is split at its await: the call action runs the     *)
(* code up to the awaited transport call, and one action per outcome of    *)
(* that transport call (it resolves, it rejects) runs the code after it.   *)
(***************************************************************************)
EXTENDS Integers, Sequences, FiniteSets, TLC

VARIABLES
    prod,       \* BaseProducer fields: producer, isConnected
    tprod,      \* transport: state of every Producer object kafka.producer() made
    pcall,      \* per caller: the BaseProducer method call in progress or last ended
    uuidCtr,    \* number of uuidv4() values drawn so far
    clock,      \* the wall clock read by new Date()
    log,        \* broker: per topic and partition, the records appended
    cons,       \* BaseConsumer fields: isConnected, isRunning, handler
    tcons,      \* transport: state of the Consumer object
    offsets,    \* broker: the group's committed position per topic and partition
    startPos,   \* the position each partition was resolved to when first assigned
    scall,      \* the BaseConsumer method call in progress or last ended
    inflight,   \* the eachMessage invocation in progress, or the last one ended
    invoked,    \* eventIds in the order the handler was first invoked for them
    succeeded,  \* eventIds for which a handler invocation completed without error
    rejected,   \* eventIds for which a handler invocation ended in an error
    published,  \* messages of the sends that ended with a receipt, in order
    envelopes,  \* every envelope createBaseEvent returned, in order
    val         \* validators: the string under validation and the schema's verdict

vars == <<prod, tprod, pcall, uuidCtr, clock, log, cons, tcons, offsets,
          startPos, scall, inflight, invoked, succeeded, rejected, published,
          envelopes, val>>

subVars == <<cons, tcons, offsets, startPos, scall, inflight, invoked, succeeded,
             rejected>>

-----------------------------------------------------------------------------
(* Bounds of the model. *)

MaxProducers == 2   \* Producer objects kafka.producer() may create
MaxEvents == 2      \* envelopes createBaseEvent may build
MaxClock == 1       \* ticks the wall clock may advance
MaxBatch == 2       \* messages in one publishBatch call
MaxEdits == 2       \* edits made to the sample routing number before validating it

-----------------------------------------------------------------------------
(* Values. *)

Undefined == "undefined"    \* the JavaScript value undefined, as a property's value
NoProducer == 0             \* this.producer = null
NoError == "none"

Callers == {"a", "b"}
Topics == {"banking.users.events", "banking.security.events"}
EventTypes == {"UserCreated", "UserUpdated"}          \* event kinds callers publish
EventType == EventTypes \cup {"UserLocked"}           \* the closed enumeration (user events)
UnknownEventTypes == {"AccountVaporized"}             \* a string outside the enumeration
Keys == {"u1", "u2", "u3"}
Payloads == {"{id:1}", "{id:2}"}
CorrelationIds == {Undefined, "corr-1"}
TransportErrors == {"KafkaJSConnectionError", "KafkaJSProtocolError"}

ServiceName == "user-service"
eventVersion == "1.0"
GZIP == "GZIP"

\* uuidv4(): the n-th value drawn
UUIDs == <<"uuid-1", "uuid-2", "uuid-3", "uuid-4", "uuid-5", "uuid-6">>
uuidv4(n) == UUIDs[n]

\* new Date().toISOString() at tick t
toISOString(t) ==
    CASE t = 0 -> "2024-01-01T00:00:00.000Z"
      [] t = 1 -> "2024-01-01T00:00:00.001Z"
      [] t = 2 -> "2024-01-01T00:00:00.002Z"
      [] OTHER -> "2024-01-01T00:00:00.003Z"

EmptyObject == [k \in {} |-> Undefined]

\* caller-supplied options.headers: none, an extra header, a header named
\* like one of the envelope's
HeaderChoices ==
    { EmptyObject,
      ("x-tenant" :> "acme"),
      ("event-type" :> "UserLocked") }

\* PublishOptions; an absent options object reads like one with both fields
\* undefined (every access is options?.x)
PublishOptions == [correlationId : CorrelationIds, headers : HeaderChoices]

\* the options the callers of the model pass: none, a correlation id with an
\* extra header, a header named like one of the envelope's
SampleOptions ==
    { [correlationId |-> Undefined, headers |-> EmptyObject],
      [correlationId |-> "corr-1", headers |-> ("x-tenant" :> "acme")],
      [correlationId |-> Undefined, headers |-> ("event-type" :> "UserLocked")] }

\* the messages a publishBatch call is given
BatchItems ==
    { [eventType |-> "UserCreated", payload |-> "{id:1}", key |-> "u1"],
      [eventType |-> "UserUpdated", payload |-> "{id:2}", key |-> "u2"] }

\* what a call returns: null, nothing (Promise<void>), or RecordMetadata[]
JsNull == [type |-> "null"]
JsVoid == [type |-> "undefined"]
Metadata(data) == [type |-> "RecordMetadata[]", data |-> data]

\* RecordMetadata[] a transport double may resolve send() with
Receipts ==
    { <<[partition |-> 0, offset |-> 0]>>,
      <<[partition |-> 1, offset |-> 7]>> }

-----------------------------------------------------------------------------
(* Event envelope (events/index.ts). *)

createBaseEvent(eventType, source, id, now) ==
    [ eventId   |-> uuidv4(id),
      eventType |-> eventType,
      timestamp |-> toISOString(now),
      version   |-> "1.0",
      source    |-> source ]

\* JSON.stringify of a flat object: a property whose value is undefined is
\* left out of the text
JSONstringify(obj) ==
    [k \in {f \in DOMAIN obj : obj[f] # Undefined} |-> obj[k]]

-----------------------------------------------------------------------------
(* BaseProducer (kafka/producer.ts). *)

\* a guard that tests only that a Producer object exists
NotConnected_ProducerOnly(p) == p.producer = NoProducer

\* publish, publishBatch: if (!this.producer || !this.isConnected)
NotConnected(p) == p.producer = NoProducer \/ ~p.isConnected

\* an envelope that is given a correlationId of its own when the caller has none
PublishEvent_GeneratesCorrelation(eventType, options, id, now) ==
    ("correlationId" :>
        (IF options.correlationId = Undefined THEN uuidv4(id) ELSE options.correlationId))
        @@ createBaseEvent(eventType, ServiceName, id, now)

\* { ...createBaseEvent(eventType, this.serviceName), correlationId }
PublishEvent(eventType, options, id, now) ==
    ("correlationId" :> options.correlationId)
        @@ createBaseEvent(eventType, ServiceName, id, now)

\* { ...event, payload }
PublishMessage(event, payload) == ("payload" :> payload) @@ event

\* options?.correlationId || ''
OrEmpty(v) == IF v = Undefined \/ v = "" THEN "" ELSE v

\* the headers object of publish: the four envelope headers, then
\* ...options?.headers
PublishHeaders(eventType, options) ==
    options.headers
        @@ ("event-type" :> eventType)
        @@ ("event-version" :> eventVersion)
        @@ ("source-service" :> ServiceName)
        @@ ("correlation-id" :> OrEmpty(options.correlationId))

\* a message keyed by its eventId instead of the caller's partitionKey
PublishKafkaMessage_KeyIsEventId(eventType, payload, key, options, id, now) ==
    [ key     |-> uuidv4(id),
      value   |-> JSONstringify(
                    PublishMessage(PublishEvent(eventType, options, id, now), payload)),
      headers |-> PublishHeaders(eventType, options) ]

\* the one message publish hands to producer.send
PublishKafkaMessage(eventType, payload, key, options, id, now) ==
    [ key     |-> key,
      value   |-> JSONstringify(
                    PublishMessage(PublishEvent(eventType, options, id, now), payload)),
      headers |-> PublishHeaders(eventType, options) ]

\* a send addressed to a fixed topic instead of the caller's
PublishSendRequest_FixedTopic(topic, eventType, payload, key, options, id, now) ==
    [ topic       |-> "banking.users.events",
      compression |-> GZIP,
      messages    |-> <<PublishKafkaMessage(eventType, payload, key, options, id, now)>> ]

\* the argument of producer.send in publish
PublishSendRequest(topic, eventType, payload, key, options, id, now) ==
    [ topic       |-> topic,
      compression |-> GZIP,
      messages    |-> <<PublishKafkaMessage(eventType, payload, key, options, id, now)>> ]

\* the headers object of publishBatch
BatchHeaders(msg) ==
    ("event-type" :> msg.eventType)
        @@ ("event-version" :> eventVersion)
        @@ ("source-service" :> ServiceName)

\* a map that yields the messages in reverse order
BatchKafkaMessages_Reversed(messages, options, id0, now) ==
    [ i \in 1..Len(messages) |->
        LET msg == messages[Len(messages) + 1 - i]
        IN  [ key     |-> msg.key,
              value   |-> JSONstringify(
                            PublishMessage(
                                PublishEvent(msg.eventType, options, id0 + i, now),
                                msg.payload)),
              headers |-> BatchHeaders(msg) ] ]

\* a map that builds one envelope and reuses it for every message
BatchKafkaMessages_OneEnvelope(messages, options, id0, now) ==
    [ i \in 1..Len(messages) |->
        [ key     |-> messages[i].key,
          value   |-> JSONstringify(
                        PublishMessage(
                            PublishEvent(messages[i].eventType, options, id0 + 1, now),
                            messages[i].payload)),
          headers |-> BatchHeaders(messages[i]) ] ]

\* messages.map((msg) => ...): the i-th message draws the (id0 + i)-th uuid
BatchKafkaMessages(messages, options, id0, now) ==
    [ i \in 1..Len(messages) |->
        [ key     |-> messages[i].key,
          value   |-> JSONstringify(
                        PublishMessage(
                            PublishEvent(messages[i].eventType, options, id0 + i, now),
                            messages[i].payload)),
          headers |-> BatchHeaders(messages[i]) ] ]

\* the argument of producer.send in publishBatch
BatchSendRequest(topic, messages, options, id0, now) ==
    [ topic       |-> topic,
      compression |-> GZIP,
      messages    |-> BatchKafkaMessages(messages, options, id0, now) ]

\* how a call ends when the guard finds the producer not connected
OnNotConnected == [outcome |-> "returned", result |-> JsNull, err |-> NoError]

\* a success path that returns null instead of the transport's metadata
OnSendResolved_ReturnsNull(result) ==
    [outcome |-> "returned", result |-> JsNull, err |-> NoError]

\* return result
OnSendResolved(result) == [outcome |-> "returned", result |-> result, err |-> NoError]

\* a catch block that logs and returns null instead of re-throwing
OnSendRejected_Swallows(error) ==
    [outcome |-> "returned", result |-> JsNull, err |-> NoError]

\* catch (error) { ...; throw error }
OnSendRejected(error) == [outcome |-> "thrown", result |-> JsVoid, err |-> error]

(* The call a caller has in progress (pc = "await": suspended at its awaited
   transport call) or ended last (pc = "done"), with what it observed. *)
IdleCall ==
    [ op      |-> "none",
      pc      |-> "idle",
      args    |-> EmptyObject,
      snap    |-> [producer |-> NoProducer, isConnected |-> FALSE],
      tp      |-> NoProducer,   \* the Producer object the awaited call was made on
      sends   |-> <<>>,         \* producer.send invocations made by this call
      tsend   |-> "none",       \* how the transport ended the send
      tret    |-> JsVoid,       \* what the transport resolved the send with
      terr    |-> NoError,      \* what the transport rejected with
      outcome |-> "none",       \* returned | thrown
      result  |-> JsVoid,
      err     |-> NoError ]

Free(c) == pcall[c].pc # "await"

NewCall(op, args) == [IdleCall EXCEPT !.op = op, !.args = args, !.snap = prod]

End(call, o) ==
    [call EXCEPT !.pc = "done", !.outcome = o.outcome, !.result = o.result, !.err = o.err]

Returns == [outcome |-> "returned", result |-> JsVoid, err |-> NoError]
Throws(error) == [outcome |-> "thrown", result |-> JsVoid, err |-> error]

\* a catch block that marks the Publisher connected although connect failed
OnConnectFailed_MarksConnected(p) == [p EXCEPT !.isConnected = TRUE]

\* connect(): catch (error) { log; throw error } assigns no field
OnConnectFailed(p) == p

\* a guard that tests only that a Producer object exists
ShouldDisconnect_ProducerOnly(p) == p.producer # NoProducer

\* disconnect(): if (this.producer && this.isConnected)
ShouldDisconnect(p) == p.producer # NoProducer /\ p.isConnected

\* a connect() without the guard on the connected flag
AlreadyConnected_Never(p) == FALSE

\* connect(): if (this.isConnected) return
AlreadyConnected(p) == p.isConnected

\* connect(): up to await this.producer.connect()
ProducerConnectCall(c) ==
    /\ Free(c)
    /\ IF AlreadyConnected(prod)
         THEN /\ pcall' = [pcall EXCEPT ![c] = End(NewCall("connect", EmptyObject), Returns)]
              /\ UNCHANGED <<prod, tprod>>
         ELSE /\ Len(tprod) < MaxProducers
              /\ tprod' = Append(tprod, "created")
              /\ prod' = [prod EXCEPT !.producer = Len(tprod) + 1]
              /\ pcall' = [pcall EXCEPT ![c] =
                    [NewCall("connect", EmptyObject) EXCEPT
                        !.pc = "await", !.tp = Len(tprod) + 1]]
    /\ UNCHANGED <<uuidCtr, clock, log, published, envelopes, val>>
    /\ UNCHANGED subVars

\* connect(): the transport connected; this.isConnected = true
ProducerConnectResolves(c) ==
    /\ pcall[c].op = "connect" /\ pcall[c].pc = "await"
    /\ tprod' = [tprod EXCEPT ![pcall[c].tp] = "connected"]
    /\ prod' = [prod EXCEPT !.isConnected = TRUE]
    /\ pcall' = [pcall EXCEPT ![c] = End(@, Returns)]
    /\ UNCHANGED <<uuidCtr, clock, log, published, envelopes, val>>
    /\ UNCHANGED subVars

\* connect(): the transport failed; catch (error) { ...; throw error }
ProducerConnectRejects(c, error) ==
    /\ pcall[c].op = "connect" /\ pcall[c].pc = "await"
    /\ pcall' = [pcall EXCEPT ![c] = End([@ EXCEPT !.terr = error], Throws(error))]
    /\ prod' = OnConnectFailed(prod)
    /\ UNCHANGED <<tprod, uuidCtr, clock, log, published, envelopes, val>>
    /\ UNCHANGED subVars

\* disconnect(): up to await this.producer.disconnect()
ProducerDisconnectCall(c) ==
    /\ Free(c)
    /\ IF ShouldDisconnect(prod)
         THEN pcall' = [pcall EXCEPT ![c] =
                [NewCall("disconnect", EmptyObject) EXCEPT
                    !.pc = "await", !.tp = prod.producer]]
         ELSE pcall' = [pcall EXCEPT ![c] = End(NewCall("disconnect", EmptyObject), Returns)]
    /\ UNCHANGED <<prod, tprod, uuidCtr, clock, log, published, envelopes, val>>
    /\ UNCHANGED subVars

\* disconnect(): the transport disconnected; this.isConnected = false
ProducerDisconnectResolves(c) ==
    /\ pcall[c].op = "disconnect" /\ pcall[c].pc = "await"
    /\ tprod' = [tprod EXCEPT ![pcall[c].tp] = "disconnected"]
    /\ prod' = [prod EXCEPT !.isConnected = FALSE]
    /\ pcall' = [pcall EXCEPT ![c] = End(@, Returns)]
    /\ UNCHANGED <<uuidCtr, clock, log, published, envelopes, val>>
    /\ UNCHANGED subVars

\* disconnect(): the transport failed; nothing catches, the error leaves the call
ProducerDisconnectRejects(c, error) ==
    /\ pcall[c].op = "disconnect" /\ pcall[c].pc = "await"
    /\ pcall' = [pcall EXCEPT ![c] = End([@ EXCEPT !.terr = error], Throws(error))]
    /\ UNCHANGED <<prod, tprod, uuidCtr, clock, log, published, envelopes, val>>
    /\ UNCHANGED subVars

\* publish(): up to await this.producer.send(...)
Publish(c, topic, eventType, payload, key, options) ==
    LET args == [topic |-> topic, eventType |-> eventType, payload |-> payload,
                 key |-> key, options |-> options]
    IN
    /\ Free(c)
    /\ IF NotConnected(prod)
         THEN /\ pcall' = [pcall EXCEPT ![c] = End(NewCall("publish", args), OnNotConnected)]
              /\ UNCHANGED <<uuidCtr, envelopes, val>>
         ELSE /\ uuidCtr < MaxEvents
              /\ uuidCtr' = uuidCtr + 1
              /\ envelopes' = Append(envelopes,
                    createBaseEvent(eventType, ServiceName, uuidCtr + 1, clock))
              /\ pcall' = [pcall EXCEPT ![c] =
                    [NewCall("publish", args) EXCEPT
                        !.pc = "await", !.tp = prod.producer, !.tsend = "pending",
                        !.sends = <<PublishSendRequest(topic, eventType, payload, key,
                                                       options, uuidCtr + 1, clock)>>]]
    /\ UNCHANGED <<prod, tprod, clock, log, published, val>>
    /\ UNCHANGED subVars

\* publishBatch(): up to await this.producer.send(...)
PublishBatch(c, topic, messages, options) ==
    LET args == [topic |-> topic, messages |-> messages, options |-> options]
    IN
    /\ Free(c)
    /\ IF NotConnected(prod)
         THEN /\ pcall' = [pcall EXCEPT ![c] = End(NewCall("publishBatch", args), OnNotConnected)]
              /\ UNCHANGED <<uuidCtr, envelopes, val>>
         ELSE /\ uuidCtr + Len(messages) <= MaxEvents
              /\ uuidCtr' = uuidCtr + Len(messages)
              /\ envelopes' = envelopes \o
                    [i \in 1..Len(messages) |->
                        createBaseEvent(messages[i].eventType, ServiceName,
                                        uuidCtr + i, clock)]
              /\ pcall' = [pcall EXCEPT ![c] =
                    [NewCall("publishBatch", args) EXCEPT
                        !.pc = "await", !.tp = prod.producer, !.tsend = "pending",
                        !.sends = <<BatchSendRequest(topic, messages, options,
                                                     uuidCtr, clock)>>]]
    /\ UNCHANGED <<prod, tprod, clock, log, published, val>>
    /\ UNCHANGED subVars

Sending(c) == pcall[c].op \in {"publish", "publishBatch"} /\ pcall[c].pc = "await"

\* publish / publishBatch after the await: the send resolved with `data`
SendResolved(c, data) ==
    pcall' = [pcall EXCEPT ![c] =
        End([@ EXCEPT !.tsend = "resolved", !.tret = Metadata(data)],
            OnSendResolved(Metadata(data)))]

\* publish / publishBatch after the await: the send rejected with `error`
SendRejected(c, error) ==
    pcall' = [pcall EXCEPT ![c] =
        End([@ EXCEPT !.tsend = "rejected", !.terr = error], OnSendRejected(error))]

\* the wall clock advances
Tick ==
    /\ clock < MaxClock
    /\ clock' = clock + 1
    /\ UNCHANGED <<prod, tprod, pcall, uuidCtr, log, published, envelopes, val>>
    /\ UNCHANGED subVars

\* a direct call of createBaseEvent(eventType, source) by a service
CreateBaseEvent(eventType, source) ==
    /\ uuidCtr < MaxEvents
    /\ uuidCtr' = uuidCtr + 1
    /\ envelopes' = Append(envelopes, createBaseEvent(eventType, source, uuidCtr + 1, clock))
    /\ UNCHANGED <<prod, tprod, pcall, clock, log, published, val>>
    /\ UNCHANGED subVars

-----------------------------------------------------------------------------
(* A transport double for the producer, as in producer.test.ts: send resolves
   with metadata of its choosing, or rejects, and keeps no log. *)

MockSendResolves(c, data) ==
    /\ Sending(c)
    /\ tprod[pcall[c].tp] = "connected"
    /\ SendResolved(c, data)
    /\ UNCHANGED <<prod, tprod, uuidCtr, clock, log, published, envelopes, val>>
    /\ UNCHANGED subVars

MockSendRejects(c, error) ==
    /\ Sending(c)
    /\ SendRejected(c, error)
    /\ UNCHANGED <<prod, tprod, uuidCtr, clock, log, published, envelopes, val>>
    /\ UNCHANGED subVars

-----------------------------------------------------------------------------
(* The broker behind the transport: one append-only log per topic and
   partition; a record goes to the partition its key selects
   (createPartitioner: Partitioners.DefaultPartitioner). *)

Partitions == {0, 1}

PartitionOf(key) ==
    IF key \in {"u1", "u3", "uuid-1", "uuid-3", "uuid-5"} THEN 0 ELSE 1

RECURSIVE AppendAll(_, _, _)
AppendAll(lg, topic, msgs) ==
    IF msgs = <<>> THEN lg
    ELSE AppendAll(
            [lg EXCEPT ![topic][PartitionOf(Head(msgs).key)] = Append(@, Head(msgs))],
            topic, Tail(msgs))

\* RecordMetadata[] of a send: per partition written, the offset of its first record
BrokerMetadata(lg, topic, msgs) ==
    LET ps == {PartitionOf(msgs[i].key) : i \in 1..Len(msgs)}
        F[S \in SUBSET ps] ==
            IF S = {} THEN <<>>
            ELSE LET q == CHOOSE x \in S : \A y \in S : x <= y
                 IN  <<[partition |-> q, offset |-> Len(lg[topic][q])]>> \o F[S \ {q}]
    IN  F[ps]

\* what the caller asked for, per message handed to send
CallerKeys(call) ==
    IF call.op = "publish" THEN <<call.args.key>>
    ELSE [i \in 1..Len(call.args.messages) |-> call.args.messages[i].key]

BrokerSendResolves(c) ==
    LET req == pcall[c].sends[1]
        keys == CallerKeys(pcall[c])
    IN
    /\ Sending(c)
    /\ tprod[pcall[c].tp] = "connected"
    /\ log' = AppendAll(log, req.topic, req.messages)
    /\ published' = published \o
            [i \in 1..Len(req.messages) |->
                [eventId |-> req.messages[i].value.eventId,
                 topic |-> req.topic,
                 partitionKey |-> keys[i]]]
    /\ SendResolved(c, BrokerMetadata(log, req.topic, req.messages))
    /\ UNCHANGED <<prod, tprod, uuidCtr, clock, envelopes, val>>
    /\ UNCHANGED subVars

BrokerSendRejects(c, error) ==
    /\ Sending(c)
    /\ SendRejected(c, error)
    /\ UNCHANGED <<prod, tprod, uuidCtr, clock, log, published, envelopes, val>>
    /\ UNCHANGED subVars

-----------------------------------------------------------------------------
(* BaseConsumer (kafka/consumer.ts). *)

NoHandler == "null"                         \* this.handler = null
Handlers == {"h1", "h2"}
HandlerErrors == {"ProcessingFailed", "DownstreamUnavailable"}
SubTopics == {"banking.users.events"}       \* config.topics
NoOffset == 0 - 1                           \* the group has no position for the partition

\* The call the application has in progress on the consumer or ended last.
IdleSubCall ==
    [ op      |-> "none",
      pc      |-> "idle",
      snap    |-> [isConnected |-> FALSE, isRunning |-> FALSE, handler |-> NoHandler],
      tcalls  |-> <<>>,         \* transport calls made by this call, in order
      outcome |-> "none",
      err     |-> NoError ]

SubFree == scall.pc \notin {"await", "await-subscribe", "await-run"}

NewSubCall(op) == [IdleSubCall EXCEPT !.op = op, !.snap = cons]

EndSub(call, outcome, error) ==
    [call EXCEPT !.pc = "done", !.outcome = outcome, !.err = error]

\* a subscription that asks for every topic from its first record
SubscribeRequest_FromBeginning == [topics |-> SubTopics, fromBeginning |-> TRUE]

\* the argument of consumer.subscribe in start()
SubscribeRequest == [topics |-> SubTopics, fromBeginning |-> FALSE]

\* a guard that never finds the handler missing
HandlerNotSet_Never(c) == FALSE

\* start(): if (!this.handler)
HandlerNotSet(c) == c.handler = NoHandler

\* a stop() that also marks the Subscriber disconnected
OnStopResolved_Disconnects(c) == [c EXCEPT !.isRunning = FALSE, !.isConnected = FALSE]

\* stop() after await this.consumer.stop(): this.isRunning = false
OnStopResolved(c) == [c EXCEPT !.isRunning = FALSE]

\* what isConsumerConnected() and isConsumerRunning() report, as a state of the
\* Subscriber's state machine
SubscriberState(c) ==
    IF ~c.isConnected THEN "disconnected"
    ELSE IF c.isRunning THEN "running" ELSE "connected"

\* setHandler(handler)
SetHandler(h) ==
    /\ cons' = [cons EXCEPT !.handler = h]
    /\ UNCHANGED <<tcons, offsets, startPos, scall, inflight, invoked, succeeded, rejected>>
    /\ UNCHANGED <<prod, tprod, pcall, uuidCtr, clock, log, published, envelopes, val>>

\* connect(): up to await this.consumer.connect()
ConsumerConnectCall ==
    /\ SubFree
    /\ scall' = [NewSubCall("connect") EXCEPT !.pc = "await", !.tcalls = <<"connect">>]
    /\ UNCHANGED <<cons, tcons, offsets, startPos, inflight, invoked, succeeded, rejected>>
    /\ UNCHANGED <<prod, tprod, pcall, uuidCtr, clock, log, published, envelopes, val>>

\* connect(): the transport connected; this.isConnected = true
ConsumerConnectResolves ==
    /\ scall.op = "connect" /\ scall.pc = "await"
    /\ tcons' = [tcons EXCEPT !.connected = TRUE]
    /\ cons' = [cons EXCEPT !.isConnected = TRUE]
    /\ scall' = EndSub(scall, "returned", NoError)
    /\ UNCHANGED <<offsets, startPos, inflight, invoked, succeeded, rejected>>
    /\ UNCHANGED <<prod, tprod, pcall, uuidCtr, clock, log, published, envelopes, val>>

\* a catch block that logs the failure and returns
OnConsumerConnectRejected_Swallows(error) == [outcome |-> "returned", err |-> NoError]

\* connect(): catch (error) { log; throw error }
OnConsumerConnectRejected(error) == [outcome |-> "thrown", err |-> error]

\* connect(): the transport failed; catch (error) { ...; throw error }
ConsumerConnectRejects(error) ==
    /\ scall.op = "connect" /\ scall.pc = "await"
    /\ scall' = EndSub(scall, OnConsumerConnectRejected(error).outcome,
                       OnConsumerConnectRejected(error).err)
    /\ UNCHANGED <<cons, tcons, offsets, startPos, inflight, invoked, succeeded, rejected>>
    /\ UNCHANGED <<prod, tprod, pcall, uuidCtr, clock, log, published, envelopes, val>>

\* start(): up to await this.consumer.subscribe(...)
StartCall ==
    /\ SubFree
    /\ IF HandlerNotSet(cons)
         THEN scall' = EndSub(NewSubCall("start"), "thrown", "Message handler not set")
         ELSE scall' = [NewSubCall("start") EXCEPT
                            !.pc = "await-subscribe", !.tcalls = <<"subscribe">>]
    /\ UNCHANGED <<cons, tcons, offsets, startPos, inflight, invoked, succeeded, rejected>>
    /\ UNCHANGED <<prod, tprod, pcall, uuidCtr, clock, log, published, envelopes, val>>

\* start(): subscribe resolved; up to await this.consumer.run(...)
SubscribeResolves ==
    /\ scall.op = "start" /\ scall.pc = "await-subscribe"
    /\ tcons' = [tcons EXCEPT !.subscribed = @ \cup SubscribeRequest.topics,
                              !.fromBeginning = SubscribeRequest.fromBeginning]
    /\ scall' = [scall EXCEPT !.pc = "await-run", !.tcalls = Append(@, "run")]
    /\ UNCHANGED <<cons, offsets, startPos, inflight, invoked, succeeded, rejected>>
    /\ UNCHANGED <<prod, tprod, pcall, uuidCtr, clock, log, published, envelopes, val>>

\* start(): subscribe or run rejected; catch (error) { ...; throw error }
StartRejects(error) ==
    /\ scall.op = "start" /\ scall.pc \in {"await-subscribe", "await-run"}
    /\ scall' = EndSub(scall, "thrown", error)
    /\ UNCHANGED <<cons, tcons, offsets, startPos, inflight, invoked, succeeded, rejected>>
    /\ UNCHANGED <<prod, tprod, pcall, uuidCtr, clock, log, published, envelopes, val>>

\* the position a partition is given when the group has none for it
ResolvedOffset(t, p) ==
    IF offsets[t][p] # NoOffset THEN offsets[t][p]
    ELSE IF t \notin tcons.subscribed THEN NoOffset
    ELSE IF tcons.fromBeginning THEN 0 ELSE Len(log[t][p])

\* start(): run resolved (the group joined, the loop is on); this.isRunning = true
RunResolves ==
    /\ scall.op = "start" /\ scall.pc = "await-run"
    /\ tcons' = [tcons EXCEPT !.running = TRUE]
    /\ offsets' = [t \in Topics |-> [p \in Partitions |-> ResolvedOffset(t, p)]]
    /\ startPos' = [t \in Topics |-> [p \in Partitions |->
                        IF startPos[t][p] # NoOffset THEN startPos[t][p]
                        ELSE ResolvedOffset(t, p)]]
    /\ cons' = [cons EXCEPT !.isRunning = TRUE]
    /\ scall' = EndSub(scall, "returned", NoError)
    /\ UNCHANGED <<inflight, invoked, succeeded, rejected>>
    /\ UNCHANGED <<prod, tprod, pcall, uuidCtr, clock, log, published, envelopes, val>>

\* a stop() that marks the Subscriber stopped before it awaits the transport
OnStopCalled_MarksStopped(c) == [c EXCEPT !.isRunning = FALSE]

\* stop() before await this.consumer.stop(): no field is assigned
OnStopCalled(c) == c

\* stop(): up to await this.consumer.stop(); the loop takes no new message
StopCall ==
    /\ SubFree
    /\ scall' = [NewSubCall("stop") EXCEPT !.pc = "await", !.tcalls = <<"stop">>]
    /\ tcons' = [tcons EXCEPT !.running = FALSE]
    /\ cons' = OnStopCalled(cons)
    /\ UNCHANGED <<offsets, startPos, inflight, invoked, succeeded, rejected>>
    /\ UNCHANGED <<prod, tprod, pcall, uuidCtr, clock, log, published, envelopes, val>>

\* stop(): the transport stopped, once no invocation is in flight;
\* this.isRunning = false
StopResolves ==
    /\ scall.op = "stop" /\ scall.pc = "await"
    /\ ~inflight.active
    /\ cons' = OnStopResolved(cons)
    /\ scall' = EndSub(scall, "returned", NoError)
    /\ UNCHANGED <<tcons, offsets, startPos, inflight, invoked, succeeded, rejected>>
    /\ UNCHANGED <<prod, tprod, pcall, uuidCtr, clock, log, published, envelopes, val>>

\* stop(): the transport failed; nothing catches, the error leaves the call
\* and isRunning stays as it was
StopRejects(error) ==
    /\ scall.op = "stop" /\ scall.pc = "await"
    /\ scall' = EndSub(scall, "thrown", error)
    /\ UNCHANGED <<cons, tcons, offsets, startPos, inflight, invoked, succeeded, rejected>>
    /\ UNCHANGED <<prod, tprod, pcall, uuidCtr, clock, log, published, envelopes, val>>

\* disconnect(): up to await this.consumer.disconnect()
ConsumerDisconnectCall ==
    /\ SubFree
    /\ IF cons.isConnected
         THEN /\ scall' = [NewSubCall("disconnect") EXCEPT
                                !.pc = "await", !.tcalls = <<"disconnect">>]
              /\ tcons' = [tcons EXCEPT !.running = FALSE]
         ELSE /\ scall' = EndSub(NewSubCall("disconnect"), "returned", NoError)
              /\ UNCHANGED tcons
    /\ UNCHANGED <<cons, offsets, startPos, inflight, invoked, succeeded, rejected>>
    /\ UNCHANGED <<prod, tprod, pcall, uuidCtr, clock, log, published, envelopes, val>>

\* disconnect(): the transport disconnected; this.isConnected = false
ConsumerDisconnectResolves ==
    /\ scall.op = "disconnect" /\ scall.pc = "await"
    /\ ~inflight.active
    /\ tcons' = [tcons EXCEPT !.connected = FALSE]
    /\ cons' = [cons EXCEPT !.isConnected = FALSE]
    /\ scall' = EndSub(scall, "returned", NoError)
    /\ UNCHANGED <<offsets, startPos, inflight, invoked, succeeded, rejected>>
    /\ UNCHANGED <<prod, tprod, pcall, uuidCtr, clock, log, published, envelopes, val>>

\* disconnect(): the transport failed; nothing catches, the error leaves the call
ConsumerDisconnectRejects(error) ==
    /\ scall.op = "disconnect" /\ scall.pc = "await"
    /\ scall' = EndSub(scall, "thrown", error)
    /\ UNCHANGED <<cons, tcons, offsets, startPos, inflight, invoked, succeeded, rejected>>
    /\ UNCHANGED <<prod, tprod, pcall, uuidCtr, clock, log, published, envelopes, val>>

\* this.topics.map((topic) => ({ topic })): what pause() asks the transport to pause
PauseRequest == SubTopics

\* a resume() that names no topic
ResumeRequest_None == {}

\* this.topics.map((topic) => ({ topic })): what resume() asks the transport to resume
ResumeRequest == SubTopics

\* pause(): no await inside
Pause ==
    /\ SubFree
    /\ IF cons.isRunning
         THEN /\ tcons' = [tcons EXCEPT !.paused = @ \cup PauseRequest]
              /\ scall' = EndSub([NewSubCall("pause") EXCEPT !.tcalls = <<"pause">>],
                                 "returned", NoError)
         ELSE /\ scall' = EndSub(NewSubCall("pause"), "returned", NoError)
              /\ UNCHANGED tcons
    /\ UNCHANGED <<cons, offsets, startPos, inflight, invoked, succeeded, rejected>>
    /\ UNCHANGED <<prod, tprod, pcall, uuidCtr, clock, log, published, envelopes, val>>

\* resume(): no await inside
Resume ==
    /\ SubFree
    /\ IF cons.isRunning
         THEN /\ tcons' = [tcons EXCEPT !.paused = @ \ ResumeRequest]
              /\ scall' = EndSub([NewSubCall("resume") EXCEPT !.tcalls = <<"resume">>],
                                 "returned", NoError)
         ELSE /\ scall' = EndSub(NewSubCall("resume"), "returned", NoError)
              /\ UNCHANGED tcons
    /\ UNCHANGED <<cons, offsets, startPos, inflight, invoked, succeeded, rejected>>
    /\ UNCHANGED <<prod, tprod, pcall, uuidCtr, clock, log, published, envelopes, val>>

-----------------------------------------------------------------------------
(* The message loop: the transport calls eachMessage with the record at the
   partition's position, one invocation at a time, and advances the committed
   position past it only when the callback returns. *)

NoInvocation ==
    [ active    |-> FALSE,
      topic     |-> "",
      partition |-> 0,
      offset    |-> NoOffset,
      eventId   |-> "",
      handler   |-> NoHandler,      \* the handler the callback invoked
      hresult   |-> "none",         \* pending | resolved | rejected
      herr      |-> NoError,
      callback  |-> [outcome |-> "none", err |-> NoError],
      committed |-> FALSE ]         \* whether the transport committed past it

\* eachMessage after await this.handler!(payload) resolved
OnHandlerResolved == [outcome |-> "returned", err |-> NoError]

\* a catch block that logs the failure and returns
OnHandlerRejected_Swallows(error) == [outcome |-> "returned", err |-> NoError]

\* eachMessage: catch (error) { ...; throw error }
OnHandlerRejected(error) == [outcome |-> "thrown", err |-> error]

\* the transport commits past a message when the callback returned
TransportCommits(callback) == callback.outcome = "returned"

\* a callback that closes over the handler registered when start() was called
HandlerInvoked_CapturedAtStart(c) ==
    IF scall.op = "start" THEN scall.snap.handler ELSE c.handler

\* eachMessage: this.handler!(payload), the field read at each invocation
HandlerInvoked(c) == c.handler

\* eachMessage(payload): up to await this.handler!(payload)
Deliver(t, p) ==
    LET m == log[t][p][offsets[t][p] + 1]
    IN
    /\ tcons.connected /\ tcons.running
    /\ t \in tcons.subscribed \ tcons.paused
    /\ ~inflight.active
    /\ offsets[t][p] # NoOffset
    /\ offsets[t][p] < Len(log[t][p])
    /\ inflight' = [NoInvocation EXCEPT
            !.active = TRUE, !.topic = t, !.partition = p, !.offset = offsets[t][p],
            !.eventId = m.value.eventId, !.handler = HandlerInvoked(cons),
            !.hresult = "pending"]
    /\ invoked' = IF \E i \in 1..Len(invoked) : invoked[i] = m.value.eventId
                  THEN invoked ELSE Append(invoked, m.value.eventId)
    /\ UNCHANGED <<cons, tcons, offsets, startPos, scall, succeeded, rejected>>
    /\ UNCHANGED <<prod, tprod, pcall, uuidCtr, clock, log, published, envelopes, val>>

\* the callback ended with `callback`: the transport commits or withholds
CallbackEnds(hresult, herr, callback) ==
    /\ inflight' = [inflight EXCEPT
            !.active = FALSE, !.hresult = hresult, !.herr = herr,
            !.callback = callback, !.committed = TransportCommits(callback)]
    /\ offsets' = IF TransportCommits(callback)
                  THEN [offsets EXCEPT ![inflight.topic][inflight.partition] =
                            inflight.offset + 1]
                  ELSE offsets

\* the handler's promise resolved
HandlerResolves ==
    /\ inflight.active
    /\ succeeded' = succeeded \cup {inflight.eventId}
    /\ CallbackEnds("resolved", NoError, OnHandlerResolved)
    /\ UNCHANGED <<cons, tcons, startPos, scall, invoked, rejected>>
    /\ UNCHANGED <<prod, tprod, pcall, uuidCtr, clock, log, published, envelopes, val>>

\* the handler's promise rejected
HandlerRejects(error) ==
    /\ inflight.active
    /\ rejected' = rejected \cup {inflight.eventId}
    /\ CallbackEnds("rejected", error, OnHandlerRejected(error))
    /\ UNCHANGED <<cons, tcons, startPos, scall, invoked, succeeded>>
    /\ UNCHANGED <<prod, tprod, pcall, uuidCtr, clock, log, published, envelopes, val>>

-----------------------------------------------------------------------------
(* Validators (validators/index.ts): routingNumberSchema. A string is a
   sequence of one-character strings. *)

Digits == {"0", "1", "2", "3", "4", "5", "6", "7", "8", "9"}

\* the characters an edit may put into the string
Chars == {"0", "1", "5", "9", " ", "x"}

\* '011000138', the valid routing number of index.test.ts
SampleRoutingNumber == <<"0", "1", "1", "0", "0", "0", "1", "3", "8">>

NaN == 0 - 1

\* Number(ch) for a one-character string: a digit's value, 0 for a blank,
\* NaN otherwise
Number(ch) ==
    CASE ch = "0" -> 0 [] ch = "1" -> 1 [] ch = "2" -> 2 [] ch = "3" -> 3
      [] ch = "4" -> 4 [] ch = "5" -> 5 [] ch = "6" -> 6 [] ch = "7" -> 7
      [] ch = "8" -> 8 [] ch = "9" -> 9 [] ch = " " -> 0 [] OTHER -> NaN

\* a pattern without the end anchor: /^\d{9}/
PatternNineDigits_NoEndAnchor(value) ==
    /\ Len(value) >= 9
    /\ \A i \in 1..9 : value[i] \in Digits

\* .pattern(/^\d{9}$/)
PatternNineDigits(value) ==
    /\ Len(value) = 9
    /\ \A i \in 1..Len(value) : value[i] \in Digits

\* digits[i] of value.split('').map(Number), as an operand of + : undefined
\* (past the end) makes the sum NaN
DigitAt(value, i) == IF i + 1 <= Len(value) THEN Number(value[i + 1]) ELSE NaN

\* the checksum the custom rule computes; NaN when an operand is NaN
Checksum(value) ==
    IF \E i \in 0..8 : DigitAt(value, i) = NaN THEN NaN
    ELSE ( 3 * (DigitAt(value, 0) + DigitAt(value, 3) + DigitAt(value, 6))
           + 7 * (DigitAt(value, 1) + DigitAt(value, 4) + DigitAt(value, 7))
           + (DigitAt(value, 2) + DigitAt(value, 5) + DigitAt(value, 8)) ) % 10

\* schema.validate(value, { abortEarly: false }) for routingNumberSchema: the
\* codes of the errors reported; every rule runs, also after one has failed.
\* Joi.string() does not allow the empty string.
routingNumberSchema(value) ==
    IF value = <<>> THEN {"string.empty"}
    ELSE (IF PatternNineDigits(value) THEN {} ELSE {"string.pattern.base"})
            \cup (IF Checksum(value) # 0 THEN {"string.checksum"} ELSE {})

\* validate(schema, value).success
ValidateSuccess(errors) == errors = {}

\* the caller changes one character of the string
ReplaceChar(i, ch) ==
    /\ val.pc = "input" /\ val.edits < MaxEdits
    /\ i \in 1..Len(val.input) /\ val.input[i] # ch
    /\ val' = [val EXCEPT !.input = [@ EXCEPT ![i] = ch], !.edits = @ + 1]
    /\ UNCHANGED <<prod, tprod, pcall, uuidCtr, clock, log, published, envelopes>>
    /\ UNCHANGED subVars

\* the caller adds a character at the end
AppendChar(ch) ==
    /\ val.pc = "input" /\ val.edits < MaxEdits
    /\ val' = [val EXCEPT !.input = Append(@, ch), !.edits = @ + 1]
    /\ UNCHANGED <<prod, tprod, pcall, uuidCtr, clock, log, published, envelopes>>
    /\ UNCHANGED subVars

\* the caller drops the last character
DropLast ==
    /\ val.pc = "input" /\ val.edits < MaxEdits
    /\ val.input # <<>>
    /\ val' = [val EXCEPT !.input = SubSeq(@, 1, Len(@) - 1), !.edits = @ + 1]
    /\ UNCHANGED <<prod, tprod, pcall, uuidCtr, clock, log, published, envelopes>>
    /\ UNCHANGED subVars

\* validate(routingNumberSchema, input)
ValidateRoutingNumber ==
    /\ val.pc = "input"
    /\ val' = [val EXCEPT !.pc = "validated", !.errors = routingNumberSchema(val.input)]
    /\ UNCHANGED <<prod, tprod, pcall, uuidCtr, clock, log, published, envelopes>>
    /\ UNCHANGED subVars

-----------------------------------------------------------------------------
(* Initial state: both objects constructed, nothing connected, empty logs. *)

Init ==
    /\ prod = [producer |-> NoProducer, isConnected |-> FALSE]
    /\ tprod = <<>>
    /\ pcall = [c \in Callers |-> IdleCall]
    /\ uuidCtr = 0
    /\ clock = 0
    /\ log = [t \in Topics |-> [p \in Partitions |-> <<>>]]
    /\ cons = [isConnected |-> FALSE, isRunning |-> FALSE, handler |-> NoHandler]
    /\ tcons = [connected |-> FALSE, subscribed |-> {}, fromBeginning |-> FALSE,
                running |-> FALSE, paused |-> {}]
    /\ offsets = [t \in Topics |-> [p \in Partitions |-> NoOffset]]
    /\ startPos = [t \in Topics |-> [p \in Partitions |-> NoOffset]]
    /\ scall = IdleSubCall
    /\ inflight = NoInvocation
    /\ invoked = <<>>
    /\ succeeded = {}
    /\ rejected = {}
    /\ published = <<>>
    /\ envelopes = <<>>
    /\ val = [input |-> SampleRoutingNumber, edits |-> 0, pc |-> "input", errors |-> {}]

\* The producer alone, against the transport double: topics, event kinds, keys,
\* options and batches varied, and createBaseEvent also called directly.
RECURSIVE SeqsUpTo(_, _)
SeqsUpTo(S, n) ==
    IF n = 0 THEN {<<>>}
    ELSE SeqsUpTo(S, n - 1)
            \cup {Append(q, x) : q \in {r \in SeqsUpTo(S, n - 1) : Len(r) = n - 1}, x \in S}

ProducerLifecycle(c) ==
    \/ ProducerConnectCall(c)
    \/ ProducerConnectResolves(c)
    \/ \E e \in TransportErrors : ProducerConnectRejects(c, e)
    \/ ProducerDisconnectCall(c)
    \/ ProducerDisconnectResolves(c)
    \/ \E e \in TransportErrors : ProducerDisconnectRejects(c, e)

NextPub ==
    \/ ProducerLifecycle("a")
    \/ \E t \in Topics, ty \in EventTypes, k \in {"u1", "u2"}, o \in SampleOptions :
          Publish("a", t, ty, "{id:1}", k, o)
    \/ \E ms \in SeqsUpTo(BatchItems, MaxBatch), o \in SampleOptions :
          PublishBatch("a", "banking.security.events", ms, o)
    \/ \E ty \in UnknownEventTypes :
          Publish("a", "banking.users.events", ty, "{id:1}", "u1",
                  [correlationId |-> Undefined, headers |-> EmptyObject])
    \/ \E ty \in EventTypes \cup UnknownEventTypes : CreateBaseEvent(ty, ServiceName)
    \/ \E d \in Receipts : MockSendResolves("a", d)
    \/ \E e \in TransportErrors : MockSendRejects("a", e)

SpecPub == Init /\ [][NextPub]_vars

\* Publisher, broker and Subscriber together: one publishing caller, the
\* application starting and stopping the Subscriber, and the transport's
\* message loop.
PublisherSteps ==
    \/ ProducerConnectCall("a")
    \/ ProducerConnectResolves("a")
    \/ \E k \in Keys :
          Publish("a", "banking.users.events", "UserCreated", "{id:1}", k,
                  [correlationId |-> Undefined, headers |-> EmptyObject])
    \/ BrokerSendResolves("a")
    \/ BrokerSendRejects("a", "KafkaJSProtocolError")

SubscriberSteps ==
    \/ SetHandler("h1")
    \/ ConsumerConnectCall
    \/ ConsumerConnectResolves
    \/ StartCall
    \/ SubscribeResolves
    \/ StartRejects("KafkaJSConnectionError")
    \/ RunResolves
    \/ StopCall
    \/ StopResolves

MessageLoop ==
    \/ \E t \in Topics, p \in Partitions : Deliver(t, p)
    \/ HandlerResolves
    \/ \E e \in HandlerErrors : HandlerRejects(e)

Next == PublisherSteps \/ SubscriberSteps \/ MessageLoop

Spec == Init /\ [][Next]_vars

\* Fair scheduling: the application's calls are answered and a stopped
\* Subscriber is started again, the loop keeps delivering while it runs, and
\* the handler, retried often enough, succeeds.
Fairness ==
    /\ SF_vars(ConsumerConnectResolves)
    /\ SF_vars(StartCall)
    /\ SF_vars(SubscribeResolves)
    /\ SF_vars(RunResolves)
    /\ SF_vars(StopResolves)
    /\ \A t \in SubTopics, p \in Partitions : SF_vars(Deliver(t, p))
    /\ SF_vars(HandlerResolves)

\* The same system with one partition key in use, for the fair runs.
NextFair ==
    \/ ProducerConnectCall("a")
    \/ ProducerConnectResolves("a")
    \/ Publish("a", "banking.users.events", "UserCreated", "{id:1}", "u1",
               [correlationId |-> Undefined, headers |-> EmptyObject])
    \/ BrokerSendResolves("a")
    \/ SubscriberSteps
    \/ MessageLoop

SpecFair == Init /\ [][NextFair]_vars /\ Fairness

\* The Subscriber alone, against a transport that answers every call, the
\* application free to make any call in any state.
NextSub ==
    \/ \E h \in Handlers : SetHandler(h)
    \/ ConsumerConnectCall
    \/ ConsumerConnectResolves
    \/ \E e \in TransportErrors : ConsumerConnectRejects(e)
    \/ StartCall
    \/ SubscribeResolves
    \/ \E e \in TransportErrors : StartRejects(e)
    \/ RunResolves
    \/ StopCall
    \/ StopResolves
    \/ \E e \in TransportErrors : StopRejects(e)
    \/ ConsumerDisconnectCall
    \/ ConsumerDisconnectResolves
    \/ \E e \in TransportErrors : ConsumerDisconnectRejects(e)
    \/ Pause
    \/ Resume

SpecSub == Init /\ [][NextSub]_vars

\* The Publisher's lifecycle under overlapping calls: two callers share one
\* Publisher and may call connect, disconnect, publish and publishBatch while
\* another call awaits the transport.
NextLife ==
    \/ \E c \in Callers : ProducerLifecycle(c)
    \/ \E c \in Callers :
          Publish(c, "banking.users.events", "UserCreated", "{id:1}", "u1",
                  [correlationId |-> Undefined, headers |-> EmptyObject])
    \/ \E c \in Callers, m \in BatchItems :
          PublishBatch(c, "banking.users.events", <<m>>,
                       [correlationId |-> Undefined, headers |-> EmptyObject])
    \/ \E c \in Callers, d \in Receipts : MockSendResolves(c, d)
    \/ \E c \in Callers, e \in TransportErrors : MockSendRejects(c, e)

SpecLife == Init /\ [][NextLife]_vars

\* Connecting and disconnecting, one call at a time, a Publisher and a
\* Subscriber whose transport may fail every attempt.
NextConn ==
    \/ ProducerLifecycle("a")
    \/ Publish("a", "banking.users.events", "UserCreated", "{id:1}", "u1",
               [correlationId |-> Undefined, headers |-> EmptyObject])
    \/ \E d \in Receipts : MockSendResolves("a", d)
    \/ \E e \in TransportErrors : MockSendRejects("a", e)
    \/ ConsumerConnectCall
    \/ ConsumerConnectResolves
    \/ \E e \in TransportErrors : ConsumerConnectRejects(e)
    \/ ConsumerDisconnectCall
    \/ ConsumerDisconnectResolves
    \/ \E e \in TransportErrors : ConsumerDisconnectRejects(e)

SpecConn == Init /\ [][NextConn]_vars

\* The validators alone: a string is edited and then validated.
NextVal ==
    \/ \E i \in 1..(9 + MaxEdits), ch \in Chars : ReplaceChar(i, ch)
    \/ \E ch \in Chars : AppendChar(ch)
    \/ DropLast
    \/ ValidateRoutingNumber

SpecVal == Init /\ [][NextVal]_vars

\* Replacing the handler: a Publisher publishing under one key, a Subscriber
\* that is connected and started once and whose handler the application
\* replaces at will, and the message loop.
NextSwap ==
    \/ ProducerConnectCall("a")
    \/ ProducerConnectResolves("a")
    \/ Publish("a", "banking.users.events", "UserCreated", "{id:1}", "u1",
               [correlationId |-> Undefined, headers |-> EmptyObject])
    \/ BrokerSendResolves("a")
    \/ \E h \in Handlers : SetHandler(h)
    \/ ConsumerConnectCall
    \/ ConsumerConnectResolves
    \/ StartCall
    \/ SubscribeResolves
    \/ RunResolves
    \/ MessageLoop

SpecSwap == Init /\ [][NextSwap]_vars

\* Backpressure: a Publisher publishing under one key, a Subscriber that is
\* started once and then paused and resumed at will, and the message loop.
NextFlow ==
    \/ ProducerConnectCall("a")
    \/ ProducerConnectResolves("a")
    \/ Publish("a", "banking.users.events", "UserCreated", "{id:1}", "u1",
               [correlationId |-> Undefined, headers |-> EmptyObject])
    \/ BrokerSendResolves("a")
    \/ SetHandler("h1")
    \/ ConsumerConnectCall
    \/ ConsumerConnectResolves
    \/ StartCall
    \/ SubscribeResolves
    \/ RunResolves
    \/ Pause
    \/ Resume
    \/ MessageLoop

\* Fair scheduling of the backpressure runs: as in Fairness, and a paused
\* Subscriber is resumed in the end.
FairFlow ==
    /\ Fairness
    /\ SF_vars(Resume)

SpecFlow == Init /\ [][NextFlow]_vars /\ FairFlow

-----------------------------------------------------------------------------
(* Subscriber and end-to-end claims, checked under Spec and SpecFair. *)

\* the eventId of the record at offset o of partition p of topic t
EventIdAt(t, p, o) == log[t][p][o + 1].value.eventId

\* the eachMessage invocation that ended last
Ended == ~inflight.active /\ inflight.hresult # "none"

\* C1: the committed position of a partition lies past a message only if the
\* handler completed without error for it. When the handler rejects, the
\* eachMessage callback throws that same error and the transport records no
\* commit for the message; when the handler resolves, the callback returns
\* and the transport commits the message; nothing is committed while the
\* handler is still running.
C1_CommitOnlyAfterHandlerSuccess ==
    /\ \A t \in Topics, p \in Partitions :
            startPos[t][p] # NoOffset =>
                \A o \in startPos[t][p]..(offsets[t][p] - 1) :
                    EventIdAt(t, p, o) \in succeeded
    /\ inflight.active =>
            offsets[inflight.topic][inflight.partition] = inflight.offset
    /\ (Ended /\ inflight.hresult = "rejected") =>
            /\ inflight.callback.outcome = "thrown"
            /\ inflight.callback.err = inflight.herr
            /\ inflight.herr \in HandlerErrors
            /\ ~inflight.committed
            /\ offsets[inflight.topic][inflight.partition] = inflight.offset
    /\ (Ended /\ inflight.hresult = "resolved") =>
            /\ inflight.callback.outcome = "returned"
            /\ inflight.committed
            /\ offsets[inflight.topic][inflight.partition] = inflight.offset + 1

\* the handler rejected the second message of a partition whose first message
\* is committed
C1_Witness ==
    /\ Ended /\ inflight.hresult = "rejected"
    /\ inflight.herr = "DownstreamUnavailable"
    /\ inflight.offset = 1
    /\ startPos[inflight.topic][inflight.partition] = 0
    /\ offsets[inflight.topic][inflight.partition] = 1

\* In one step: a delivery hands the handler the record at the committed
\* position of its partition; a rejected invocation leaves every committed
\* position as it was; a committed position moves only by one, past the
\* message whose invocation resolved in that step (or from none to the
\* starting position).
RedeliveryStep ==
    /\ (~inflight.active /\ inflight'.active) =>
            /\ inflight'.offset = offsets[inflight'.topic][inflight'.partition]
            /\ inflight'.eventId
                    = EventIdAt(inflight'.topic, inflight'.partition, inflight'.offset)
    /\ (inflight.active /\ ~inflight'.active /\ inflight'.hresult = "rejected") =>
            offsets' = offsets
    /\ \A t \in Topics, p \in Partitions :
            offsets'[t][p] # offsets[t][p] =>
                \/ offsets[t][p] = NoOffset
                \/ /\ offsets'[t][p] = offsets[t][p] + 1
                   /\ inflight.active /\ inflight.topic = t /\ inflight.partition = p
                   /\ inflight.offset = offsets[t][p]
                   /\ inflight'.hresult = "resolved"

\* C2: a message whose handler invocation failed stays the next message its
\* partition delivers (no commit past it, no later message of the partition
\* delivered or committed before it), and under fair scheduling every
\* message whose handler failed is eventually processed successfully; it is
\* committed only then.
C2_AtLeastOnce ==
    /\ [][RedeliveryStep]_vars
    /\ \A n \in 1..MaxEvents :
            (uuidv4(n) \in rejected) ~> (uuidv4(n) \in succeeded)

\* a message whose handler failed was delivered again, succeeded, and is
\* committed, as is the message after it in the partition
C2_Witness ==
    \E t \in Topics, p \in Partitions :
        /\ startPos[t][p] = 0
        /\ offsets[t][p] = 2
        /\ EventIdAt(t, p, 0) \in rejected \cap succeeded

\* the position of eventId id in the order of first handler invocations, 0
\* when the handler was never invoked for it
InvokedAt(id) ==
    IF \E x \in 1..Len(invoked) : invoked[x] = id
    THEN CHOOSE x \in 1..Len(invoked) : invoked[x] = id
    ELSE 0

\* the record lay in its partition below the position the Subscriber's group
\* started from (subscribe with fromBeginning: false), so it is never
\* delivered to this Subscriber
BeforeStart(t, id) ==
    \E p \in Partitions :
        /\ startPos[t][p] # NoOffset
        /\ \E o \in 0..(startPos[t][p] - 1) : EventIdAt(t, p, o) = id

\* C10: for two messages published by successive publish calls with the same
\* partitionKey to the same topic, the handler is not invoked for the second
\* before it has been invoked for the first: when it is invoked for the
\* second, it has already been invoked for the first, unless the first lay
\* before the Subscriber's starting position and is not delivered to it at all.
C10_PerKeyOrder ==
    \A i \in 1..Len(published), j \in 1..Len(published) :
        (/\ i < j
         /\ published[i].partitionKey = published[j].partitionKey
         /\ published[i].topic = published[j].topic
         /\ InvokedAt(published[j].eventId) # 0) =>
            \/ /\ InvokedAt(published[i].eventId) # 0
               /\ InvokedAt(published[i].eventId) < InvokedAt(published[j].eventId)
            \/ BeforeStart(published[i].topic, published[i].eventId)

\* two messages of one key, published after the Subscriber started, both
\* handled, the first one first, after the handler had failed on it
C10_Witness ==
    /\ Len(published) = 2
    /\ published[1].partitionKey = published[2].partitionKey
    /\ invoked = <<published[1].eventId, published[2].eventId>>
    /\ published[1].eventId \in rejected
    /\ ~BeforeStart(published[1].topic, published[1].eventId)

-----------------------------------------------------------------------------
(* Publisher claims, checked under SpecPub. *)

PublishCalls == {"publish", "publishBatch"}

\* a publish or publishBatch call that has been made by caller c
PubCalled(c) == pcall[c].op \in PublishCalls /\ pcall[c].pc # "idle"
PubEnded(c) == pcall[c].op \in PublishCalls /\ pcall[c].pc = "done"

\* C3: a publish or publishBatch call made while the Publisher is not connected
\* (isConnected false: never connected, connect failed, or disconnected again)
\* ends at once, returns null, does not throw and invokes no transport send.
C3_NotConnectedReturnsUnavailable ==
    \A c \in Callers :
        (PubCalled(c) /\ ~pcall[c].snap.isConnected) =>
            /\ pcall[c].pc = "done"
            /\ pcall[c].outcome = "returned"
            /\ pcall[c].result = JsNull
            /\ pcall[c].sends = <<>>

\* a publish made after a connect and a disconnect both succeeded
C3_Witness ==
    /\ pcall["a"].op = "publish" /\ pcall["a"].pc = "done"
    /\ pcall["a"].snap.producer # NoProducer
    /\ ~pcall["a"].snap.isConnected
    /\ tprod[pcall["a"].snap.producer] = "disconnected"
    /\ pcall["a"].result = JsNull

\* C4: when the transport rejects the send of a publish or publishBatch call,
\* the call throws that same error, returns nothing (no null, no partial
\* result), has invoked send exactly once, and the Publisher's producer and
\* isConnected are what they were when the call was made.
C4_SendFailureRethrown ==
    \A c \in Callers :
        (PubEnded(c) /\ pcall[c].tsend = "rejected") =>
            /\ pcall[c].outcome = "thrown"
            /\ pcall[c].err = pcall[c].terr
            /\ pcall[c].err \in TransportErrors
            /\ pcall[c].result = JsVoid
            /\ Len(pcall[c].sends) = 1
            /\ prod = pcall[c].snap
            /\ prod.isConnected

\* a two-message batch whose send the transport rejected
C4_Witness ==
    /\ pcall["a"].op = "publishBatch" /\ pcall["a"].pc = "done"
    /\ Len(pcall["a"].args.messages) = 2
    /\ pcall["a"].tsend = "rejected"
    /\ pcall["a"].outcome = "thrown"
    /\ pcall["a"].err = "KafkaJSProtocolError"

\* C5: every ended publish or publishBatch call has exactly one of three
\* outcomes: it returned metadata, it returned null, or it threw. Metadata is
\* returned only after one send that the transport resolved, and is what the
\* transport resolved it with; null is returned only when send was not invoked.
C5_NoSilentDrop ==
    \A c \in Callers :
        PubEnded(c) =>
            LET r == pcall[c]
                receipt == r.outcome = "returned" /\ r.result.type = "RecordMetadata[]"
                unavailable == r.outcome = "returned" /\ r.result = JsNull
                thrown == r.outcome = "thrown" /\ r.err # NoError
            IN  /\ receipt \/ unavailable \/ thrown
                /\ receipt => ( /\ Len(r.sends) = 1
                                /\ r.tsend = "resolved"
                                /\ r.result = r.tret )
                /\ unavailable => r.sends = <<>>
                /\ r.tsend = "resolved" => receipt
                /\ r.tsend = "rejected" => thrown

\* a publish that returned the metadata the transport resolved with
C5_Witness ==
    /\ pcall["a"].op = "publish" /\ pcall["a"].pc = "done"
    /\ pcall["a"].outcome = "returned"
    /\ pcall["a"].result = Metadata(<<[partition |-> 1, offset |-> 7]>>)

\* C6: a publish call made while connected invokes send exactly once, to the
\* caller's topic, with exactly one message whose key is the caller's
\* partitionKey and whose value's eventType is the caller's eventType.
C6_PublishSendsOneMessage ==
    \A c \in Callers :
        (pcall[c].op = "publish" /\ pcall[c].pc # "idle"
            /\ pcall[c].snap.isConnected /\ pcall[c].snap.producer # NoProducer) =>
            /\ Len(pcall[c].sends) = 1
            /\ pcall[c].sends[1].topic = pcall[c].args.topic
            /\ Len(pcall[c].sends[1].messages) = 1
            /\ pcall[c].sends[1].messages[1].key = pcall[c].args.key
            /\ pcall[c].sends[1].messages[1].value.eventType = pcall[c].args.eventType

\* a publish of UserUpdated, key u2, to the security topic, sent and resolved
C6_Witness ==
    /\ pcall["a"].op = "publish" /\ pcall["a"].pc = "done"
    /\ pcall["a"].snap.isConnected
    /\ pcall["a"].args.key = "u2"
    /\ pcall["a"].args.eventType = "UserUpdated"
    /\ pcall["a"].args.topic = "banking.security.events"
    /\ pcall["a"].tsend = "resolved"

\* the correlationId a decoded value carries, '' when it carries none
ValueCorrelationId(value) ==
    IF "correlationId" \in DOMAIN value THEN value.correlationId ELSE ""

\* C7 (as claimed): for every message publish sends, for every choice of
\* options, header event-type equals the value's eventType, event-version the
\* value's version, source-service the value's source, and correlation-id the
\* value's correlationId (an absent correlationId read as the empty header).
C7_HeadersMirrorEnvelope ==
    \A c \in Callers :
        (pcall[c].op = "publish" /\ pcall[c].sends # <<>>) =>
            LET m == pcall[c].sends[1].messages[1]
            IN  /\ m.headers["event-type"] = m.value.eventType
                /\ m.headers["event-version"] = m.value.version
                /\ m.headers["source-service"] = m.value.source
                /\ m.headers["correlation-id"] = ValueCorrelationId(m.value)

\* C8: a publishBatch call of N messages made while connected invokes send
\* exactly once, to the caller's topic, with N messages, the i-th having the
\* key and the eventType of the i-th input message.
C8_BatchOneSendInOrder ==
    \A c \in Callers :
        (pcall[c].op = "publishBatch" /\ pcall[c].pc # "idle"
            /\ pcall[c].snap.isConnected /\ pcall[c].snap.producer # NoProducer) =>
            /\ Len(pcall[c].sends) = 1
            /\ pcall[c].sends[1].topic = pcall[c].args.topic
            /\ Len(pcall[c].sends[1].messages) = Len(pcall[c].args.messages)
            /\ \A i \in 1..Len(pcall[c].args.messages) :
                    /\ pcall[c].sends[1].messages[i].key = pcall[c].args.messages[i].key
                    /\ pcall[c].sends[1].messages[i].value.eventType
                            = pcall[c].args.messages[i].eventType
                    /\ pcall[c].sends[1].messages[i].value.payload
                            = pcall[c].args.messages[i].payload

\* a batch of two different messages, sent and resolved
C8_Witness ==
    /\ pcall["a"].op = "publishBatch" /\ pcall["a"].pc = "done"
    /\ Len(pcall["a"].args.messages) = 2
    /\ pcall["a"].args.messages[1].key = "u2"
    /\ pcall["a"].args.messages[2].key = "u1"
    /\ pcall["a"].tsend = "resolved"

\* a decoded value without the fields that are fresh per envelope
WithoutFresh(value) ==
    [k \in DOMAIN value \ {"eventId", "timestamp"} |-> value[k]]

\* C9 (as claimed): each message publishBatch hands to the transport has the
\* key, the value fields other than eventId and timestamp, and the transport
\* headers of the message publish builds for the same eventType, payload, key
\* and options.
C9_BatchMessageLikePublish ==
    \A c \in Callers :
        (pcall[c].op = "publishBatch" /\ pcall[c].sends # <<>>) =>
            \A i \in 1..Len(pcall[c].args.messages) :
                LET item == pcall[c].args.messages[i]
                    bm == pcall[c].sends[1].messages[i]
                    pm == PublishKafkaMessage(item.eventType, item.payload, item.key,
                                              pcall[c].args.options, 1, 0)
                IN  /\ bm.key = pm.key
                    /\ WithoutFresh(bm.value) = WithoutFresh(pm.value)
                    /\ bm.headers = pm.headers

-----------------------------------------------------------------------------
(* Envelope claims, checked under SpecPub. *)

\* caller c, whose last publish threw because the send was rejected, makes the
\* same publish call again
RetriesPublish(c) ==
    /\ pcall[c].op = "publish" /\ pcall[c].pc = "done"
    /\ pcall[c].tsend = "rejected" /\ pcall[c].outcome = "thrown"
    /\ pcall'[c].op = "publish" /\ pcall'[c].pc = "await"
    /\ pcall'[c].args = pcall[c].args

\* C11 (as claimed): a retry of a publish whose send failed hands the
\* transport the identical envelope: the value sent again has the eventId and
\* the timestamp (and every other field) of the value sent the first time.
C11_RetryResendsSameEnvelope ==
    [][ \A c \in Callers :
            RetriesPublish(c) =>
                pcall'[c].sends[1].messages[1].value
                    = pcall[c].sends[1].messages[1].value ]_vars

\* the messages of the send caller c's publish or publishBatch call made
SentMessages(c) ==
    IF pcall[c].op \in PublishCalls /\ pcall[c].sends # <<>>
    THEN pcall[c].sends[1].messages ELSE <<>>

\* C12: every envelope built so far (by a direct createBaseEvent call, by
\* publish, or by publishBatch) has a non-empty eventId, no two of them share
\* an eventId, and the messages of one send (the N of a batch) carry N
\* different eventIds, each the eventId of an envelope built with that
\* message's eventType.
C12_EventIdsUnique ==
    /\ \A i \in 1..Len(envelopes) : envelopes[i].eventId # ""
    /\ \A i, j \in 1..Len(envelopes) :
            i # j => envelopes[i].eventId # envelopes[j].eventId
    /\ \A c \in Callers :
            LET ms == SentMessages(c)
            IN  /\ \A k, l \in 1..Len(ms) :
                        k # l => ms[k].value.eventId # ms[l].value.eventId
                /\ \A k \in 1..Len(ms) :
                        \E i \in 1..Len(envelopes) :
                            /\ envelopes[i].eventId = ms[k].value.eventId
                            /\ envelopes[i].eventType = ms[k].value.eventType

\* every envelope the bound allows has been built, the last ones by a batch of
\* two messages, and the first two are of different kinds
C12_Witness ==
    /\ Len(envelopes) = MaxEvents
    /\ pcall["a"].op = "publishBatch"
    /\ Len(SentMessages("a")) = 2
    /\ envelopes[1].eventType # envelopes[2].eventType

\* C13 (as claimed): no envelope with an eventType outside the closed
\* enumeration is ever constructed, by a direct createBaseEvent call or inside
\* publish or publishBatch, and none is handed to the transport.
C13_UnknownEventTypeRejected ==
    /\ \A i \in 1..Len(envelopes) : envelopes[i].eventType \in EventType
    /\ \A c \in Callers :
            \A k \in 1..Len(SentMessages(c)) :
                SentMessages(c)[k].value.eventType \in EventType

\* what the caller asked for with the k-th message of its send
CallerItem(c, k) ==
    IF pcall[c].op = "publish"
    THEN [eventType |-> pcall[c].args.eventType, payload |-> pcall[c].args.payload]
    ELSE [eventType |-> pcall[c].args.messages[k].eventType,
          payload |-> pcall[c].args.messages[k].payload]

EnvelopeFields == {"eventId", "eventType", "timestamp", "version", "source"}

\* C14: the value of every message publish or publishBatch sends has the five
\* envelope fields of an envelope createBaseEvent built for the caller's
\* eventType, the caller's payload under 'payload', a correlationId exactly
\* when the caller's options carry one (and then that one), no causationId,
\* and no other field.
C14_WireFormat ==
    \A c \in Callers :
        \A k \in 1..Len(SentMessages(c)) :
            LET v == SentMessages(c)[k].value
                corr == pcall[c].args.options.correlationId
            IN  /\ EnvelopeFields \cup {"payload"} \subseteq DOMAIN v
                /\ DOMAIN v \subseteq EnvelopeFields \cup {"payload", "correlationId"}
                /\ \E i \in 1..Len(envelopes) :
                        \A f \in EnvelopeFields : v[f] = envelopes[i][f]
                /\ v.eventType = CallerItem(c, k).eventType
                /\ v.version = "1.0" /\ v.source = ServiceName
                /\ v.payload = CallerItem(c, k).payload
                /\ ("correlationId" \in DOMAIN v) <=> (corr # Undefined)
                /\ ("correlationId" \in DOMAIN v) => v.correlationId = corr
                /\ "causationId" \notin DOMAIN v

\* a publish with a correlation id, made after an earlier envelope was built,
\* has been sent and acknowledged
C14_Witness ==
    /\ pcall["a"].op = "publish" /\ pcall["a"].tsend = "resolved"
    /\ pcall["a"].args.options.correlationId = "corr-1"
    /\ SentMessages("a")[1].value.correlationId = "corr-1"
    /\ SentMessages("a")[1].value.eventId = uuidv4(2)

-----------------------------------------------------------------------------
(* Subscriber lifecycle claims, checked under SpecSub. *)

\* the application has made the call `op` on the Subscriber, and it is the
\* last call it made
SubCalled(op) == scall.op = op /\ scall.pc # "idle"
SubEnded(op) == scall.op = op /\ scall.pc = "done"

\* C15: a start() call made while no handler is registered has ended, threw
\* 'Message handler not set', made no transport call (no subscribe, no run),
\* and the Subscriber is not running.
C15_StartWithoutHandler ==
    (SubCalled("start") /\ scall.snap.handler = NoHandler) =>
        /\ scall.pc = "done"
        /\ scall.outcome = "thrown"
        /\ scall.err = "Message handler not set"
        /\ scall.tcalls = <<>>
        /\ ~cons.isRunning
        /\ ~tcons.running /\ tcons.subscribed = {}

\* start() on a connected Subscriber that has no handler
C15_Witness ==
    /\ SubEnded("start")
    /\ scall.snap.isConnected /\ scall.snap.handler = NoHandler
    /\ scall.err = "Message handler not set"

\* C16 (as claimed): a start() call made with a handler registered while the
\* Subscriber is not in state connected (it is disconnected, or already
\* running) has ended, threw, made no transport call, and left isRunning as
\* it was.
C16_StartOnlyWhenConnected ==
    (SubCalled("start") /\ scall.snap.handler # NoHandler
        /\ SubscriberState(scall.snap) # "connected") =>
        /\ scall.pc = "done"
        /\ scall.outcome = "thrown"
        /\ scall.tcalls = <<>>
        /\ cons.isRunning = scall.snap.isRunning

\* the step in which a stop() call made on a running, connected Subscriber returns
StopReturns ==
    /\ scall.op = "stop" /\ scall.pc = "await"
    /\ scall.snap.isConnected /\ scall.snap.isRunning
    /\ scall'.pc = "done" /\ scall'.outcome = "returned"

\* C17: a stop() call made on a running (or paused) Subscriber calls the
\* transport's stop and nothing else; once the transport has stopped and the
\* call has returned, the Subscriber is in state connected (not running,
\* still connected, the transport still connected), and the returning step
\* changes neither the handler nor the subscribed topics.
C17_StopReturnsToConnected ==
    /\ [] ( (SubCalled("stop") /\ scall.snap.isConnected /\ scall.snap.isRunning) =>
                /\ scall.tcalls = <<"stop">>
                /\ tcons.connected
                /\ (scall.pc = "done" /\ scall.outcome = "returned") =>
                        SubscriberState(cons) = "connected" )
    /\ [][ StopReturns =>
                /\ cons'.handler = cons.handler
                /\ ~cons'.isRunning /\ cons'.isConnected
                /\ tcons'.subscribed = tcons.subscribed
                /\ tcons'.connected = tcons.connected ]_vars

\* stop() returned on a Subscriber that was running with its topics paused
C17_Witness ==
    /\ SubEnded("stop") /\ scall.outcome = "returned"
    /\ scall.snap.isConnected /\ scall.snap.isRunning
    /\ tcons.paused = SubTopics
    /\ cons.handler = "h2"

\* C18 (as claimed): running implies connected in every state, and once a
\* disconnect() call has returned the Subscriber is neither connected nor
\* running.
C18_RunningImpliesConnected ==
    /\ cons.isRunning => cons.isConnected
    /\ (SubEnded("disconnect") /\ scall.outcome = "returned") =>
            (~cons.isConnected /\ ~cons.isRunning)

\* C19 (as claimed): after pause() on a running Subscriber the transport has
\* been asked to pause every configured topic and the Subscriber's state is
\* no longer running; after resume() on a Subscriber paused that way the
\* transport has been asked to resume every topic and the state is running.
C19_PauseMovesToPaused ==
    /\ (SubEnded("pause") /\ SubscriberState(scall.snap) = "running") =>
            /\ scall.tcalls = <<"pause">>
            /\ SubTopics \subseteq tcons.paused
            /\ SubscriberState(cons) # "running"
    /\ (SubEnded("resume") /\ SubscriberState(scall.snap) = "running") =>
            /\ scall.tcalls = <<"resume">>
            /\ tcons.paused \cap SubTopics = {}
            /\ SubscriberState(cons) = "running"

\* C20 (as claimed): a pause() or resume() call made on a Subscriber whose
\* state is not running (disconnected, or connected and not started or
\* stopped) returns without error, makes no transport call and leaves the
\* Subscriber's fields as they were.
C20_PauseResumeNoOp ==
    ((SubEnded("pause") \/ SubEnded("resume"))
        /\ SubscriberState(scall.snap) # "running") =>
        /\ scall.outcome = "returned"
        /\ scall.tcalls = <<>>
        /\ cons.isConnected = scall.snap.isConnected
        /\ cons.isRunning = scall.snap.isRunning

-----------------------------------------------------------------------------
(* Backpressure, checked under SpecFlow. *)

\* a step in which a pause() or resume() call is made
PauseOrResumeStep == scall' # scall /\ scall'.op \in {"pause", "resume"}

\* a step in which the loop invokes the callback for a message
InvocationStep == ~inflight.active /\ inflight'.active

\* the n-th envelope lies uncommitted in a partition of a connected, running
\* Subscriber whose topics are all paused
WaitingWhilePaused(n) ==
    /\ cons.isConnected /\ tcons.connected
    /\ cons.isRunning /\ tcons.running
    /\ SubTopics \subseteq tcons.paused
    /\ \E t \in SubTopics, p \in Partitions :
            /\ offsets[t][p] # NoOffset
            /\ \E o \in offsets[t][p]..(Len(log[t][p]) - 1) :
                    EventIdAt(t, p, o) = uuidv4(n)

\* C21: a pause() or resume() call makes no transport call other than pause
\* or resume and leaves the committed positions, the subscription, the
\* connection and the loop as they are; no invocation starts for a topic
\* that is paused, and every invocation is for the record at the committed
\* position; a message that waits uncommitted while the Subscriber is paused
\* is eventually handled successfully.
C21_BackpressureLosesNothing ==
    /\ [][ PauseOrResumeStep =>
                /\ \A i \in 1..Len(scall'.tcalls) : scall'.tcalls[i] \in {"pause", "resume"}
                /\ offsets' = offsets
                /\ tcons'.subscribed = tcons.subscribed
                /\ tcons'.connected = tcons.connected
                /\ tcons'.running = tcons.running ]_vars
    /\ [][ InvocationStep =>
                /\ inflight'.topic \notin tcons.paused
                /\ inflight'.offset = offsets[inflight'.topic][inflight'.partition] ]_vars
    /\ \A n \in 1..MaxEvents :
            WaitingWhilePaused(n) ~> (uuidv4(n) \in succeeded)

\* the first message has been handled, the Subscriber was paused after that,
\* and the second message waits in the log
C21_Witness ==
    /\ uuidv4(1) \in succeeded
    /\ scall.op = "pause" /\ scall.tcalls = <<"pause">>
    /\ WaitingWhilePaused(2)
    /\ ~inflight.active

-----------------------------------------------------------------------------
(* Stopping with a handler in flight, checked under SpecFair. *)

\* stop() has been called and awaits the transport while a handler invocation
\* is in flight
StopOverlapsHandler == scall.op = "stop" /\ scall.pc = "await" /\ inflight.active

-----------------------------------------------------------------------------
(* Publisher lifecycle, checked under SpecLife (overlapping calls), SpecPub
   and SpecConn (one call at a time). *)

\* the step in which caller c's connect() returns, its transport connect
\* having succeeded
ConnectSucceeds(c) ==
    /\ pcall[c].op = "connect" /\ pcall[c].pc = "await"
    /\ pcall'[c].pc = "done" /\ pcall'[c].outcome = "returned"
    /\ tprod'[pcall[c].tp] = "connected"

\* the step in which caller c's connect() throws
ConnectFails(c) ==
    /\ pcall[c].op = "connect" /\ pcall[c].pc = "await"
    /\ pcall'[c].pc = "done" /\ pcall'[c].outcome = "thrown"

\* C23: every step that takes isConnected from false to true is the return of
\* a connect() call whose transport connect succeeded; the step in which a
\* connect() call fails throws the transport's error and leaves isConnected
\* as it was.
C23_ConnectedOnlyByConnect ==
    [][ /\ (~prod.isConnected /\ prod'.isConnected) =>
                \E c \in Callers : ConnectSucceeds(c)
        /\ \A c \in Callers :
                ConnectFails(c) =>
                    /\ prod'.isConnected = prod.isConnected
                    /\ pcall'[c].err = pcall'[c].terr
                    /\ pcall'[c].err \in TransportErrors ]_vars

\* caller a's connect() failed and left the Publisher not connected; caller
\* b's later connect() succeeded
C23_Witness ==
    /\ pcall["a"].op = "connect" /\ pcall["a"].outcome = "thrown"
    /\ ~pcall["a"].snap.isConnected
    /\ pcall["b"].op = "connect" /\ pcall["b"].outcome = "returned"
    /\ pcall["b"].tp = 2 /\ pcall["a"].tp = 1
    /\ tprod = <<"created", "connected">>
    /\ prod.isConnected

\* C24: a disconnect() call made on a connected Publisher calls disconnect on
\* the Publisher's transport producer (one call), and once it has returned
\* the Publisher is not connected and that producer is disconnected; a
\* disconnect() call made on a Publisher that is not connected has ended,
\* returned without error, made no transport call and left the Publisher's
\* fields as they were.
C24_ProducerDisconnect ==
    \A c \in Callers :
        (pcall[c].op = "disconnect" /\ pcall[c].pc # "idle") =>
            IF pcall[c].snap.isConnected
            THEN /\ pcall[c].tp = pcall[c].snap.producer
                 /\ pcall[c].tp # NoProducer
                 /\ (pcall[c].pc = "done" /\ pcall[c].outcome = "returned") =>
                        /\ ~prod.isConnected
                        /\ prod.producer = pcall[c].snap.producer
                        /\ tprod[pcall[c].tp] = "disconnected"
            ELSE /\ pcall[c].pc = "done"
                 /\ pcall[c].outcome = "returned"
                 /\ pcall[c].err = NoError
                 /\ pcall[c].tp = NoProducer
                 /\ prod = pcall[c].snap

\* disconnect() called again on a Publisher that was connected and then
\* disconnected
C24_Witness ==
    /\ pcall["a"].op = "disconnect" /\ pcall["a"].pc = "done"
    /\ pcall["a"].snap.producer # NoProducer
    /\ ~pcall["a"].snap.isConnected
    /\ tprod[pcall["a"].snap.producer] = "disconnected"
    /\ pcall["a"].outcome = "returned"

\* a connect() or disconnect() call of caller c that the transport failed
ProducerAttemptFailed(c) ==
    pcall[c].op \in {"connect", "disconnect"} /\ pcall[c].terr # NoError

\* C25: a Publisher connect() or disconnect() call whose transport attempt
\* failed has ended, threw the transport's error, made its one attempt on one
\* transport producer, and isConnected is what it was when the call was made;
\* a Subscriber connect() or disconnect() call returns only if the transport
\* did what was asked, and one that threw threw a transport error after one
\* transport call and left isConnected and isRunning as they were.
C25_ConnectionErrorsSurface ==
    /\ \A c \in Callers :
            ProducerAttemptFailed(c) =>
                /\ pcall[c].pc = "done"
                /\ pcall[c].outcome = "thrown"
                /\ pcall[c].err = pcall[c].terr
                /\ pcall[c].err \in TransportErrors
                /\ pcall[c].tp # NoProducer
                /\ prod.isConnected = pcall[c].snap.isConnected
    /\ (SubEnded("connect") /\ scall.outcome = "returned") =>
            (cons.isConnected /\ tcons.connected)
    /\ (SubEnded("disconnect") /\ scall.outcome = "returned") =>
            (~cons.isConnected /\ ~tcons.connected)
    /\ ((SubEnded("connect") \/ SubEnded("disconnect")) /\ scall.outcome = "thrown") =>
            /\ scall.err \in TransportErrors
            /\ Len(scall.tcalls) = 1
            /\ cons.isConnected = scall.snap.isConnected
            /\ cons.isRunning = scall.snap.isRunning
            /\ tcons.connected = scall.snap.isConnected

\* the Subscriber's disconnect() threw and left it connected, after the
\* Publisher's connect() had thrown and left it not connected
C25_Witness ==
    /\ SubEnded("disconnect") /\ scall.outcome = "thrown"
    /\ scall.err = "KafkaJSConnectionError"
    /\ cons.isConnected
    /\ pcall["a"].op = "connect" /\ pcall["a"].outcome = "thrown"
    /\ pcall["a"].err = "KafkaJSProtocolError"
    /\ ~prod.isConnected

-----------------------------------------------------------------------------
(* Validators, checked under SpecVal. *)

\* the decimal value of a digit character
DigitValue(ch) == CHOOSE d \in 0..9 : Number(ch) = d

\* the string consists of exactly 9 decimal digits d0..d8 with
\* (3*(d0+d3+d6) + 7*(d1+d4+d7) + (d2+d5+d8)) mod 10 = 0
NineDigitsWithChecksum(str) ==
    /\ Len(str) = 9
    /\ \A i \in 1..Len(str) : str[i] \in Digits
    /\ LET d == [i \in 0..8 |-> DigitValue(str[i + 1])]
       IN  (3 * (d[0] + d[3] + d[6]) + 7 * (d[1] + d[4] + d[7])
                + (d[2] + d[5] + d[8])) % 10 = 0

\* C26: routingNumberSchema accepts a string exactly when it consists of 9
\* decimal digits whose weighted sum (weights 3, 7, 1 repeating) is a
\* multiple of 10; every other string is rejected.
C26_RoutingNumberChecksum ==
    val.pc = "validated" =>
        (ValidateSuccess(val.errors) <=> NineDigitsWithChecksum(val.input))

\* a routing number other than the sample, two digits of it changed, accepted
C26_Witness ==
    /\ val.pc = "validated" /\ val.edits = 2
    /\ val.input # SampleRoutingNumber
    /\ Len(val.input) = 9
    /\ ValidateSuccess(val.errors)

-----------------------------------------------------------------------------
(* The Subscriber's handler, checked under SpecSwap. *)

\* C27: the Subscriber holds one handler, the one given to the last
\* setHandler call; every invocation the loop starts is passed to the handler
\* held at that moment, also when it was replaced after start() was called,
\* and an invocation in flight stays with the handler it was passed to.
C27_OneHandler ==
    /\ [] (cons.handler \in Handlers \cup {NoHandler})
    /\ [][ InvocationStep =>
                /\ inflight'.handler = cons.handler
                /\ inflight'.handler \in Handlers ]_vars
    /\ [][ (inflight.active /\ inflight'.active) =>
                inflight'.handler = inflight.handler ]_vars

\* start() was called with h1 registered, the first message went to h1, h2
\* was registered while the Subscriber ran, and the second message is with h2
C27_Witness ==
    /\ scall.op = "start" /\ scall.outcome = "returned"
    /\ scall.snap.handler = "h1"
    /\ cons.isRunning /\ cons.handler = "h2"
    /\ uuidv4(1) \in succeeded \cup rejected
    /\ inflight.active /\ inflight.eventId = uuidv4(2)
    /\ inflight.handler = "h2"
-----------------------------------------------------------------------------
(* Starting the Subscriber, checked under SpecSub. *)

\* a start() call that found a handler registered
StartWithHandler == scall.op = "start" /\ scall.snap.handler # NoHandler

\* C28: a start() call made with a handler registered calls subscribe first,
\* for all configured topics with fromBeginning false, and run only once
\* subscribe has resolved; isRunning turns true only in the step in which
\* such a call returns, subscribe and run both having resolved; a call whose
\* subscribe failed ends without a run call; a call that failed threw the
\* transport's error and left isRunning as it was when the call was made
\* (false, for a Subscriber that was not running).
C28_StartSubscribesThenRuns ==
    /\ [] (StartWithHandler =>
            /\ (scall.pc = "await-subscribe") => scall.tcalls = <<"subscribe">>
            /\ (scall.pc = "await-run") =>
                    /\ scall.tcalls = <<"subscribe", "run">>
                    /\ SubTopics \subseteq tcons.subscribed
                    /\ ~tcons.fromBeginning
            /\ (scall.pc = "done" /\ scall.outcome = "returned") =>
                    /\ scall.tcalls = <<"subscribe", "run">>
                    /\ cons.isRunning /\ tcons.running
            /\ (scall.pc = "done" /\ scall.outcome = "thrown") =>
                    /\ scall.err \in TransportErrors
                    /\ scall.tcalls \in {<<"subscribe">>, <<"subscribe", "run">>}
                    /\ cons.isRunning = scall.snap.isRunning)
    /\ [][ (~cons.isRunning /\ cons'.isRunning) =>
                /\ StartWithHandler /\ scall.pc = "await-run"
                /\ scall'.pc = "done" /\ scall'.outcome = "returned"
                /\ SubTopics \subseteq tcons'.subscribed ]_vars
    /\ [][ (StartWithHandler /\ scall.pc = "await-subscribe" /\ scall'.pc = "done") =>
                /\ scall'.outcome = "thrown"
                /\ scall'.tcalls = <<"subscribe">>
                /\ tcons' = tcons /\ cons' = cons ]_vars

\* start() on a connected Subscriber with a handler registered: subscribe
\* resolved, run failed, the call threw and the Subscriber is not running
C28_Witness ==
    /\ StartWithHandler /\ scall.pc = "done" /\ scall.outcome = "thrown"
    /\ scall.tcalls = <<"subscribe", "run">>
    /\ scall.err = "KafkaJSConnectionError"
    /\ cons.isConnected /\ ~cons.isRunning /\ ~tcons.running
    /\ SubTopics \subseteq tcons.subscribed
-----------------------------------------------------------------------------
(* The Publisher's connection under overlapping calls, checked under SpecLife. *)

\* C29 (as claimed): every transport producer that is connected is the
\* Publisher's current producer, under any interleaving of connect() and
\* disconnect() calls, two connect() calls that overlap at their await
\* included: no connected producer is orphaned.
C29_NoOrphanedProducer ==
    \A i \in 1..Len(tprod) :
        tprod[i] = "connected" => prod.producer = i

\* caller d's disconnect(), called on a connected Publisher, awaits the
\* transport
DisconnectAwaits(d) ==
    /\ pcall[d].op = "disconnect" /\ pcall[d].pc = "await"
    /\ pcall[d].snap.isConnected
    /\ tprod[pcall[d].tp] = "connected"

\* C30 (as claimed): a publish or publishBatch call that starts while a
\* disconnect() call made on a connected Publisher still awaits the
\* transport, no connect() having been called since, makes no send and
\* returns null (Unavailable). The case taken is the caller's first call on
\* the Publisher, so that no connect() of it lies between the two calls.
C30_NoSendAfterDisconnectCalled ==
    [][ \A c \in Callers, d \in Callers :
            (/\ c # d
             /\ DisconnectAwaits(d)
             /\ pcall[c].pc = "idle"
             /\ pcall'[c].op \in PublishCalls) =>
                /\ pcall'[c].sends = <<>>
                /\ pcall'[c].pc = "done"
                /\ pcall'[c].result = JsNull ]_vars
-----------------------------------------------------------------------------
(* connect() called again, checked under SpecPub (one call at a time). *)

\* the step in which caller c calls connect()
ConnectCalled(c) ==
    /\ Free(c)
    /\ pcall'[c] # pcall[c]
    /\ pcall'[c].op = "connect"

\* C31: a connect() call made on a connected Publisher returns at once, with
\* no transport producer created, no transport call made and the Publisher's
\* fields as they were; a connect() call made on a Publisher that is not
\* connected (never connected, or disconnected) creates a new transport
\* producer, makes it the Publisher's producer and awaits its connect, and
\* when that resolves the producer is connected and the Publisher is
\* connected with it.
C31_ConnectIdempotent ==
    [][ \A c \in Callers :
            /\ (ConnectCalled(c) /\ prod.isConnected) =>
                    /\ pcall'[c].pc = "done"
                    /\ pcall'[c].outcome = "returned"
                    /\ pcall'[c].tp = NoProducer
                    /\ tprod' = tprod
                    /\ prod' = prod
            /\ (ConnectCalled(c) /\ ~prod.isConnected) =>
                    /\ pcall'[c].pc = "await"
                    /\ Len(tprod') = Len(tprod) + 1
                    /\ \A i \in 1..Len(tprod) : tprod'[i] = tprod[i]
                    /\ tprod'[Len(tprod')] = "created"
                    /\ prod'.producer = Len(tprod')
                    /\ pcall'[c].tp = Len(tprod')
                    /\ ~prod'.isConnected
            /\ (/\ pcall[c].op = "connect" /\ pcall[c].pc = "await"
                /\ pcall'[c].pc = "done" /\ pcall'[c].outcome = "returned") =>
                    /\ tprod'[pcall[c].tp] = "connected"
                    /\ prod'.producer = pcall[c].tp
                    /\ prod'.isConnected ]_vars

\* the Publisher was connected, disconnected and connected again with a
\* second producer, and a further connect() returned having done nothing
C31_Witness ==
    /\ pcall["a"].op = "connect" /\ pcall["a"].pc = "done"
    /\ pcall["a"].outcome = "returned"
    /\ pcall["a"].snap = [producer |-> 2, isConnected |-> TRUE]
    /\ pcall["a"].tp = NoProducer
    /\ tprod = <<"disconnected", "connected">>
    /\ prod = [producer |-> 2, isConnected |-> TRUE]

=============================================================================
